---------------------------- MODULE Spec2Model ----------------------------
(***************************************************************************)
(* State-machine model of the game session engine of transcendence-backend *)
(* (GameService in src/src/services/auth.ts, the game routes and the game  *)
(* WebSocket handler).                                                     *)
(*                                                                         *)
(* Every async handler is a process that runs from one `await` to the      *)
(* next in one atomic step (the JavaScript run-to-completion rule); other  *)
(* handlers may run between two steps of the same handler.  A database     *)
(* call takes effect when it is issued; the handler resumes in a later     *)
(* step.                                                                   *)
(*                                                                         *)
(* Real numbers are fixed-point integers: 1.0 is Scale.  Math.random() is  *)
(* a draw r with 0 <= r < Scale.                                           *)
(***************************************************************************)
EXTENDS Integers, Sequences, FiniteSets, TLC

VARIABLES
    games,            \* GameService.games: game id -> object id, 0 when absent
    heap,             \* the GameState objects ever allocated, by object id
    gameConnections,  \* GameService.gameConnections: game id -> set of sockets, when present
    aiOpponents,      \* GameService.aiOpponents: game id -> difficulty ("none" when absent)
    dbGames,          \* table games: game id -> row (NoRow when absent)
    dbPlayers,        \* table game_players: game id -> set of rows
    sock,             \* each WebSocket: "closed", "open" or "broken" (send throws)
    procs,            \* the handler invocations in flight, one per slot
    ticks,            \* number of physics steps executed so far (bounds the model)
    dbFails,          \* number of persistence calls that have failed so far (bounds the model)
    hist              \* history of the current batch of overlapping moves

vars == <<games, heap, gameConnections, aiOpponents, dbGames, dbPlayers, sock, procs, ticks, dbFails, hist>>

---------------------------------------------------------------------------
(* Fixed point and program constants *)

Scale == 100 * 100

WinningScore == 11

Half == Scale \div 2
PaddleMin == Scale \div 10
PaddleMax == Scale - Scale \div 10
PaddleHalfHeight == Scale \div 10
LeftPlane == Scale \div 20
RightPlane == Scale - Scale \div 20
ServeSpeedX == (6 * Scale) \div 10

Max(a, b) == IF a >= b THEN a ELSE b
Min(a, b) == IF a <= b THEN a ELSE b
Abs(a) == IF a >= 0 THEN a ELSE -a
Sign(a) == IF a > 0 THEN 1 ELSE IF a < 0 THEN -1 ELSE 0

\* Division of fixed-point products, rounding toward zero.
TDiv(a, b) == IF a >= 0 THEN a \div b ELSE -((-a) \div b)

\* Math.max(0.1, Math.min(0.9, v))
Clamp(lo, hi, v) == Max(lo, Min(hi, v))

---------------------------------------------------------------------------
(* Model bounds and input sets *)

GameIds == {"g1"}
AiId == "ai"

\* Moves allowed in the sequential specification.
MaxTicks == 2
\* Moves allowed in the rally specification: enough for the ball to cross
\* the table from the serve and a point to be scored.
MaxTicksDeep == 53

\* Persistence calls allowed to fail.
MaxDbFailures == 1

NoRow == [status |-> "norow", is_private |-> FALSE, max_players |-> 0, room_code |-> "none", is_ai_game |-> FALSE, difficulty |-> "none"]

---------------------------------------------------------------------------
(* Ball and physics *)

\* initializeBall(): two draws of Math.random().
initializeBall(r1, r2) ==
    [x |-> Half, y |-> Half,
     vx |-> IF r1 > Half THEN ServeSpeedX ELSE -ServeSpeedX,
     vy |-> TDiv((r2 - Half) * 4, 10),
     speed |-> Scale]

\* resetBall(gameState, servingPlayer): one draw of Math.random().
resetBall(servingPlayer, r) ==
    [x |-> Half, y |-> Half,
     vx |-> IF servingPlayer = "left" THEN ServeSpeedX ELSE -ServeSpeedX,
     vy |-> TDiv((r - Half) * 4, 10),
     speed |-> Scale]

\* players.find(p => p.side === side): index of the first match, 0 when none.
FindSide(ps, side) ==
    LET S == {i \in 1..Len(ps) : ps[i].side = side}
    IN IF S = {} THEN 0 ELSE CHOOSE i \in S : \A j \in S : i <= j

\* players.find(p => p.userId === userId)
FindUser(ps, u) ==
    LET S == {i \in 1..Len(ps) : ps[i].userId = u}
    IN IF S = {} THEN 0 ELSE CHOOSE i \in S : \A j \in S : i <= j

\* players.find(p => p.isAi)
FindAi(ps) ==
    LET S == {i \in 1..Len(ps) : ps[i].isAi}
    IN IF S = {} THEN 0 ELSE CHOOSE i \in S : \A j \in S : i <= j

\* The integration with the reflection of vy but without the clamp of y.
IntegrateUnclamped(b) ==
    LET x1 == b.x + TDiv(b.vx * b.speed, Scale * 60)
        y1 == b.y + TDiv(b.vy * b.speed, Scale * 60)
    IN [x |-> x1, y |-> y1, vx |-> b.vx,
        vy |-> IF y1 <= 0 \/ y1 >= Scale THEN -b.vy ELSE b.vy, speed |-> b.speed]

\* The ball after integration and the wall bounce.
Integrate(b) ==
    LET x1 == b.x + TDiv(b.vx * b.speed, Scale * 60)
        y1 == b.y + TDiv(b.vy * b.speed, Scale * 60)
        wall == y1 <= 0 \/ y1 >= Scale
    IN [x |-> x1,
        y |-> IF wall THEN Max(0, Min(Scale, y1)) ELSE y1,
        vx |-> b.vx,
        vy |-> IF wall THEN -b.vy ELSE b.vy,
        speed |-> b.speed]

\* The reflection off a paddle that leaves the ball where integration put it.
ReflectInPlace(b, paddleY, plane) ==
    [x |-> b.x, y |-> b.y, vx |-> -b.vx,
     vy |-> b.vy + (b.y - paddleY) * 2,
     speed |-> TDiv(b.speed * 105, 100)]

\* The reflection off a paddle at paddleY, leaving the ball on `plane`.
Reflect(b, paddleY, plane) ==
    [x |-> plane, y |-> b.y, vx |-> -b.vx,
     vy |-> b.vy + (b.y - paddleY) * 2,
     speed |-> TDiv(b.speed * 105, 100)]

InWindow(b, paddleY) ==
    b.y >= paddleY - PaddleHalfHeight /\ b.y <= paddleY + PaddleHalfHeight

\* Left then right paddle collision.
Collide(b, ps) ==
    LET li == FindSide(ps, "left")
        ri == FindSide(ps, "right")
        bl == IF b.x <= LeftPlane /\ b.vx < 0 /\ li # 0 /\ InWindow(b, ps[li].paddleY)
              THEN Reflect(b, ps[li].paddleY, LeftPlane) ELSE b
    IN IF bl.x >= RightPlane /\ bl.vx > 0 /\ ri # 0 /\ InWindow(bl, ps[ri].paddleY)
       THEN Reflect(bl, ps[ri].paddleY, RightPlane) ELSE bl

\* updateBallPhysics(gameState); r is the draw resetBall makes when a point is scored.
updateBallPhysics(gs, r) ==
    LET ps == gs.players
        li == FindSide(ps, "left")
        ri == FindSide(ps, "right")
        b == Collide(Integrate(gs.ball), ps)
        rightScores == b.x < 0 /\ ri # 0
        leftScores == ~(b.x < 0) /\ b.x > Scale /\ li # 0
        ps2 == IF rightScores THEN [ps EXCEPT ![ri].score = @ + 1]
               ELSE IF leftScores THEN [ps EXCEPT ![li].score = @ + 1]
               ELSE ps
        b2 == IF rightScores THEN resetBall("right", r)
              ELSE IF leftScores THEN resetBall("left", r)
              ELSE b
        over == \/ li # 0 /\ ps2[li].score >= gs.winningScore
                \/ ri # 0 /\ ps2[ri].score >= gs.winningScore
    IN [gs EXCEPT !.players = ps2, !.ball = b2,
                  !.status = IF over THEN "finished" ELSE @]

\* createAIOpponent(difficulty): the fixed table, as [speed, accuracy].
AiSpeed(d) ==
    CASE d = "easy" -> (3 * Scale) \div 10
      [] d = "medium" -> (5 * Scale) \div 10
      [] d = "hard" -> (7 * Scale) \div 10
      [] OTHER -> (9 * Scale) \div 10

AiAccuracy(d) ==
    CASE d = "easy" -> (60 * Scale) \div 100
      [] d = "medium" -> (75 * Scale) \div 100
      [] d = "hard" -> (85 * Scale) \div 100
      [] OTHER -> (95 * Scale) \div 100

\* calculateAIMove(gameId, ball); cfg is aiOpponents.get(gameId), r the draw.
calculateAIMove(cfg, ball, r) ==
    IF cfg = "none" THEN Half
    ELSE
    LET predictedY == IF ball.vx > 0
                      THEN Clamp(PaddleMin, PaddleMax,
                                 ball.y + TDiv(ball.vy * (RightPlane - ball.x), ball.vx))
                      ELSE ball.y
        error == TDiv((r - Half) * (Scale - AiAccuracy(cfg)) * 3, Scale * 10)
        targetY == predictedY + error
        currentY == Half
        maxMove == TDiv(AiSpeed(cfg) * 2, 100)
        diff == targetY - currentY
        move == Sign(diff) * Min(Abs(diff), maxMove)
    IN Clamp(PaddleMin, PaddleMax, currentY + move)

---------------------------------------------------------------------------
(* Records *)

Procs == {1, 2}

\* One GameState object per registry entry plus one per handler that may
\* still hold a reference to an object no longer registered.
ObjIds == 1..(Cardinality(Procs) + 1)

NoBall == [x |-> 0, y |-> 0, vx |-> 0, vy |-> 0, speed |-> 0]

\* An object id that holds no live object.
DeadSession ==
    [players |-> <<>>, ball |-> NoBall, status |-> "dead", isPrivate |-> FALSE,
     maxPlayers |-> 0, roomCode |-> "none", isAiGame |-> FALSE, difficulty |-> "none",
     winningScore |-> 0, started |-> FALSE]

\* A GamePlayer as createPvPGame, createAIGame and joinGame make it.
NewPlayer(u, ai, side) ==
    [userId |-> u, paddleY |-> Half, score |-> 0, isAi |-> ai, side |-> side]

\* A handler invocation: its operation, its position, its arguments and locals,
\* its outcome, and what it has done so far (bc: it has called
\* broadcastGameState; wrote: it has changed the registry or a GameState;
\* phys: it has run updateBallPhysics; pre: the registry entry as it stood
\* when the operation was called).
IdleProc ==
    [op |-> "idle", pc |-> "idle", g |-> "-", user |-> "-", num |-> 0, str |-> "-",
     ref |-> 0, row |-> "-", rows |-> <<>>, idx |-> 0, res |-> "-",
     bc |-> FALSE, wrote |-> FALSE, phys |-> FALSE, pre |-> "-"]

Finish(pr, res) ==
    [pr EXCEPT !.pc = "done", !.res = res, !.num = 0, !.str = "-", !.ref = 0,
               !.row = "-", !.rows = <<>>, !.idx = 0]

NoConnections == [present |-> FALSE, conns |-> {}]

NoHist == [on |-> FALSE, g |-> "-", base |-> DeadSession, moves |-> <<>>]

Quiescent == \A p \in Procs : procs[p].pc = "idle"

\* The registry entry of g, as a handler about to be called would find it.
PreOf(g) ==
    IF games[g] = 0 THEN "absent"
    ELSE IF Len(heap[games[g]].players) >= heap[games[g]].maxPlayers THEN "full"
    ELSE "open"

\* Objects no longer reachable from the registry or from a handler are dropped.
Gc(h, gm, pr) ==
    [i \in ObjIds |->
        IF (\E g \in GameIds : gm[g] = i) \/ (\E p \in Procs : pr[p].ref = i)
        THEN h[i] ELSE DeadSession]

\* The id a new GameState object gets.
FreeObj ==
    CHOOSE i \in ObjIds : (\A g \in GameIds : games[g] # i) /\ (\A p \in Procs : procs[p].ref # i)

---------------------------------------------------------------------------
(* The persistence collaborator (DatabaseService) *)

\* isUserInGame
DbHas(g, u) == \E r \in dbPlayers[g] : r.user_id = u

\* addPlayerToGame (the caller has checked the primary key)
DbAdd(g, u, ai) ==
    [dbPlayers EXCEPT ![g] = @ \cup {[user_id |-> u, is_ai |-> ai, score |-> 0]}]

\* removePlayerFromGame
DbRemove(g, u) == [dbPlayers EXCEPT ![g] = {r \in @ : r.user_id # u}]

\* updatePlayerScore
DbSetScore(g, u, s) ==
    [dbPlayers EXCEPT ![g] = {IF r.user_id = u THEN [r EXCEPT !.score = s] ELSE r : r \in @}]

\* updateGameStatus
DbSetStatus(g, st) ==
    IF dbGames[g] = NoRow THEN dbGames ELSE [dbGames EXCEPT ![g].status = st]

\* getGamePlayers: the rows of the game, in an order the query does not fix.
Orderings(S) ==
    {sq \in [1..Cardinality(S) -> S] : \A i, j \in 1..Cardinality(S) : sq[i] = sq[j] => i = j}

\* Whether a persistence call may fail now.
DbOutcomes == IF dbFails < MaxDbFailures THEN {FALSE, TRUE} ELSE {FALSE}

---------------------------------------------------------------------------
(* Broadcast hub *)

\* The sockets of a set in the order forEach visits them.
VisitOrder(S) == CHOOSE sq \in Orderings(S) : TRUE

NoSends == [c \in DOMAIN sock |-> 0]

\* The loop that stops at the first send that throws.
RECURSIVE SendWalkAborting(_, _, _)
SendWalkAborting(todo, conns, log) ==
    IF todo = <<>> THEN [conns |-> conns, log |-> log]
    ELSE LET c == Head(todo)
             log1 == [log EXCEPT ![c] = @ + 1]
         IN IF sock[c] = "broken"
            THEN [conns |-> conns \ {c}, log |-> log1]
            ELSE SendWalkAborting(Tail(todo), conns, log1)

\* connections.forEach(connection => { try { connection.send(message) }
\* catch { connections.delete(connection) } }): the sockets still to visit,
\* the set, and the number of sends made to each socket so far.
RECURSIVE SendWalk(_, _, _)
SendWalk(todo, conns, log) ==
    IF todo = <<>> THEN [conns |-> conns, log |-> log]
    ELSE LET c == Head(todo)
             log1 == [log EXCEPT ![c] = @ + 1]
         IN IF sock[c] = "broken"
            THEN SendWalk(Tail(todo), conns \ {c}, log1)
            ELSE SendWalk(Tail(todo), conns, log1)

\* broadcastGameState(gameId, gameState) as a loop: the set it leaves and the
\* sends it makes; with no set for the game it returns at once.
Broadcast(g) ==
    IF gameConnections[g].present
    THEN SendWalk(VisitOrder(gameConnections[g].conns), gameConnections[g].conns, NoSends)
    ELSE [conns |-> {}, log |-> NoSends]

\* broadcastGameState: every socket of the set is sent the snapshot; a socket
\* whose send throws is deleted from the set.
broadcastGameState(g) ==
    IF gameConnections[g].present
    THEN [gameConnections EXCEPT ![g].conns = Broadcast(g).conns]
    ELSE gameConnections

\* addConnection
addConnection(g, c) ==
    [gameConnections EXCEPT ![g] = [present |-> TRUE, conns |-> @.conns \cup {c}]]

\* removeConnection
removeConnection(g, c) ==
    IF gameConnections[g].present
    THEN [gameConnections EXCEPT ![g].conns = @ \ {c}]
    ELSE gameConnections

---------------------------------------------------------------------------
(* GameState construction *)

\* The GameState createPvPGame builds.
PvPState(u, priv, maxp, r1, r2) ==
    [players |-> <<NewPlayer(u, FALSE, "left")>>, ball |-> initializeBall(r1, r2),
     status |-> "waiting", isPrivate |-> priv, maxPlayers |-> maxp,
     roomCode |-> IF priv THEN "code" ELSE "none", isAiGame |-> FALSE,
     difficulty |-> "none", winningScore |-> WinningScore, started |-> FALSE]

\* The GameState of a game against the synthetic opponent with the sides
\* exchanged and the game left waiting.
AIStateSwapped(u, d, r1, r2) ==
    [players |-> <<NewPlayer(u, FALSE, "right"), NewPlayer(AiId, TRUE, "left")>>,
     ball |-> initializeBall(r1, r2),
     status |-> "waiting", isPrivate |-> FALSE, maxPlayers |-> 2,
     roomCode |-> "none", isAiGame |-> TRUE,
     difficulty |-> d, winningScore |-> WinningScore, started |-> FALSE]

\* The GameState createAIGame builds.
AIState(u, d, r1, r2) ==
    [players |-> <<NewPlayer(u, FALSE, "left"), NewPlayer(AiId, TRUE, "right")>>,
     ball |-> initializeBall(r1, r2),
     status |-> "active", isPrivate |-> FALSE, maxPlayers |-> 2,
     roomCode |-> "none", isAiGame |-> TRUE,
     difficulty |-> d, winningScore |-> WinningScore, started |-> TRUE]

\* The GameState joinGame and getGameState rebuild from the database: `status`
\* is the status read by findGameById, `rows` the rows read by getGamePlayers.
RebuiltState(g, status, rows, r1, r2) ==
    [players |-> [i \in 1..Len(rows) |->
                    [userId |-> rows[i].user_id, paddleY |-> Half, score |-> rows[i].score,
                     isAi |-> rows[i].is_ai, side |-> IF i = 1 THEN "left" ELSE "right"]],
     ball |-> initializeBall(r1, r2),
     status |-> status, isPrivate |-> dbGames[g].is_private,
     maxPlayers |-> dbGames[g].max_players, roomCode |-> dbGames[g].room_code,
     isAiGame |-> dbGames[g].is_ai_game, difficulty |-> dbGames[g].difficulty,
     winningScore |-> WinningScore, started |-> FALSE]

---------------------------------------------------------------------------
(* createPvPGame *)

\* Up to the first await: the id and room code are made and db.createGame is called.
CreateStart(p, g, u, priv, maxp) ==
    /\ procs[p].pc = "idle"
    /\ dbGames[g] = NoRow
    /\ dbGames' = [dbGames EXCEPT ![g] =
                     [status |-> "waiting", is_private |-> priv, max_players |-> maxp,
                      room_code |-> IF priv THEN "code" ELSE "none",
                      is_ai_game |-> FALSE, difficulty |-> "none"]]
    /\ procs' = [procs EXCEPT ![p] =
                   [IdleProc EXCEPT !.op = "create", !.pc = "c_game", !.g = g, !.user = u,
                                    !.pre = PreOf(g)]]
    /\ hist' = NoHist
    /\ UNCHANGED <<games, heap, gameConnections, aiOpponents, dbPlayers, sock, ticks, dbFails>>

\* db.addPlayerToGame(gameId, createdBy); the insert fails on a duplicate key.
CreateAddPlayer(p) ==
    LET pr == procs[p] IN
    /\ pr.pc = "c_game"
    /\ IF DbHas(pr.g, pr.user)
       THEN /\ procs' = [procs EXCEPT ![p] = Finish(pr, "PersistenceError")]
            /\ UNCHANGED dbPlayers
       ELSE /\ procs' = [procs EXCEPT ![p].pc = "c_player"]
            /\ dbPlayers' = DbAdd(pr.g, pr.user, FALSE)
    /\ UNCHANGED <<games, heap, gameConnections, aiOpponents, dbGames, sock, ticks, dbFails, hist>>

\* The GameState is built and registered with an empty socket set.
CreateFinish(p, r1, r2) ==
    LET pr == procs[p]
        i == FreeObj
        row == dbGames[pr.g]
    IN
    /\ pr.pc = "c_player"
    /\ games' = [games EXCEPT ![pr.g] = i]
    /\ gameConnections' = [gameConnections EXCEPT ![pr.g] = [present |-> TRUE, conns |-> {}]]
    /\ procs' = [procs EXCEPT ![p] = Finish([pr EXCEPT !.wrote = TRUE], "ok")]
    /\ heap' = Gc([heap EXCEPT ![i] = PvPState(pr.user, row.is_private, row.max_players, r1, r2)],
                  games', procs')
    /\ UNCHANGED <<aiOpponents, dbGames, dbPlayers, sock, ticks, dbFails, hist>>

---------------------------------------------------------------------------
(* createAIGame *)

CreateAIStart(p, g, u, d) ==
    /\ procs[p].pc = "idle"
    /\ dbGames[g] = NoRow
    /\ dbGames' = [dbGames EXCEPT ![g] =
                     [status |-> "waiting", is_private |-> FALSE, max_players |-> 2,
                      room_code |-> "none", is_ai_game |-> TRUE, difficulty |-> d]]
    /\ procs' = [procs EXCEPT ![p] =
                   [IdleProc EXCEPT !.op = "createAI", !.pc = "a_game", !.g = g, !.user = u,
                                    !.pre = PreOf(g)]]
    /\ hist' = NoHist
    /\ UNCHANGED <<games, heap, gameConnections, aiOpponents, dbPlayers, sock, ticks, dbFails>>

\* db.addPlayerToGame(gameId, userId)
CreateAIAddUser(p) ==
    LET pr == procs[p] IN
    /\ pr.pc = "a_game"
    /\ IF DbHas(pr.g, pr.user)
       THEN /\ procs' = [procs EXCEPT ![p] = Finish(pr, "PersistenceError")]
            /\ UNCHANGED dbPlayers
       ELSE /\ procs' = [procs EXCEPT ![p].pc = "a_user"]
            /\ dbPlayers' = DbAdd(pr.g, pr.user, FALSE)
    /\ UNCHANGED <<games, heap, gameConnections, aiOpponents, dbGames, sock, ticks, dbFails, hist>>

\* db.addPlayerToGame(gameId, 'ai', true)
CreateAIAddAi(p) ==
    LET pr == procs[p] IN
    /\ pr.pc = "a_user"
    /\ IF DbHas(pr.g, AiId)
       THEN /\ procs' = [procs EXCEPT ![p] = Finish(pr, "PersistenceError")]
            /\ UNCHANGED dbPlayers
       ELSE /\ procs' = [procs EXCEPT ![p].pc = "a_ai"]
            /\ dbPlayers' = DbAdd(pr.g, AiId, TRUE)
    /\ UNCHANGED <<games, heap, gameConnections, aiOpponents, dbGames, sock, ticks, dbFails, hist>>

\* The opponent's configuration, the GameState and the socket set are registered.
CreateAIFinish(p, r1, r2) ==
    LET pr == procs[p]
        i == FreeObj
    IN
    /\ pr.pc = "a_ai"
    /\ aiOpponents' = [aiOpponents EXCEPT ![pr.g] = dbGames[pr.g].difficulty]
    /\ games' = [games EXCEPT ![pr.g] = i]
    /\ gameConnections' = [gameConnections EXCEPT ![pr.g] = [present |-> TRUE, conns |-> {}]]
    /\ procs' = [procs EXCEPT ![p] = Finish([pr EXCEPT !.wrote = TRUE], "ok")]
    /\ heap' = Gc([heap EXCEPT ![i] = AIState(pr.user, dbGames[pr.g].difficulty, r1, r2)],
                  games', procs')
    /\ UNCHANGED <<dbGames, dbPlayers, sock, ticks, dbFails, hist>>

---------------------------------------------------------------------------
(* joinGame *)

\* db.findGameById(gameId) is called; its answer is kept in row.
JoinStart(p, g, u, code) ==
    /\ procs[p].pc = "idle"
    /\ procs' = [procs EXCEPT ![p] =
                   [IdleProc EXCEPT !.op = "join", !.pc = "j_game", !.g = g, !.user = u,
                                    !.str = code, !.row = dbGames[g].status,
                                    !.pre = PreOf(g)]]
    /\ hist' = NoHist
    /\ UNCHANGED <<games, heap, gameConnections, aiOpponents, dbGames, dbPlayers, sock, ticks, dbFails>>

\* 'Game not found', 'Invalid room code', else db.getGamePlayerCount(gameId).
JoinCount(p) ==
    LET pr == procs[p] IN
    /\ pr.pc = "j_game"
    /\ procs' = [procs EXCEPT ![p] =
                   IF pr.row = "norow" THEN Finish(pr, "NotFound")
                   ELSE IF dbGames[pr.g].is_private /\ pr.str # dbGames[pr.g].room_code
                   THEN Finish(pr, "Forbidden")
                   ELSE [pr EXCEPT !.pc = "j_count", !.num = Cardinality(dbPlayers[pr.g])]]
    /\ UNCHANGED <<games, heap, gameConnections, aiOpponents, dbGames, dbPlayers, sock, ticks, dbFails, hist>>

\* 'Game is full', else db.isUserInGame(gameId, userId).
JoinIsIn(p) ==
    LET pr == procs[p] IN
    /\ pr.pc = "j_count"
    /\ procs' = [procs EXCEPT ![p] =
                   IF pr.num >= dbGames[pr.g].max_players THEN Finish(pr, "ConflictFull")
                   ELSE [pr EXCEPT !.pc = "j_isin", !.num = 0,
                                   !.idx = IF DbHas(pr.g, pr.user) THEN 1 ELSE 0]]
    /\ UNCHANGED <<games, heap, gameConnections, aiOpponents, dbGames, dbPlayers, sock, ticks, dbFails, hist>>

\* 'User already in game', else db.addPlayerToGame(gameId, userId); the insert
\* fails on a duplicate key.
JoinAdd(p) ==
    LET pr == procs[p] IN
    /\ pr.pc = "j_isin"
    /\ IF pr.idx = 1
       THEN /\ procs' = [procs EXCEPT ![p] = Finish(pr, "ConflictAlreadyJoined")]
            /\ UNCHANGED dbPlayers
       ELSE IF DbHas(pr.g, pr.user)
       THEN /\ procs' = [procs EXCEPT ![p] = Finish(pr, "PersistenceError")]
            /\ UNCHANGED dbPlayers
       ELSE /\ procs' = [procs EXCEPT ![p] = [pr EXCEPT !.pc = "j_added", !.idx = 0]]
            /\ dbPlayers' = DbAdd(pr.g, pr.user, FALSE)
    /\ UNCHANGED <<games, heap, gameConnections, aiOpponents, dbGames, sock, ticks, dbFails, hist>>

\* The push of the new player together with a new serve of the ball.
PushPlayerServing(gs, u) ==
    [gs EXCEPT !.players =
                  Append(@, NewPlayer(u, FALSE, IF Len(gs.players) = 1 THEN "right" ELSE "left")),
               !.ball = initializeBall(0, 0)]

\* gameState.players.push({..., side: newPlayerSide})
PushPlayer(gs, u) ==
    [gs EXCEPT !.players =
        Append(@, NewPlayer(u, FALSE, IF Len(gs.players) = 1 THEN "right" ELSE "left"))]

\* From the push to the end of joinGame, on the GameState object i of heap h,
\* with registry gm: the game starts when the roster has maxPlayers entries, and
\* db.updateGameStatus is then awaited before the broadcast.
JoinTail(p, i, h, gm) ==
    LET pr == procs[p]
        s1 == PushPlayer(h[i], pr.user)
        full == Len(s1.players) = s1.maxPlayers
        s2 == IF full THEN [s1 EXCEPT !.status = "active", !.started = TRUE] ELSE s1
    IN
    /\ games' = gm
    /\ IF full
       THEN /\ dbGames' = DbSetStatus(pr.g, "active")
            /\ procs' = [procs EXCEPT ![p] =
                           [pr EXCEPT !.pc = "j_status", !.ref = i, !.rows = <<>>,
                                      !.row = "-", !.wrote = TRUE]]
            /\ UNCHANGED gameConnections
       ELSE /\ UNCHANGED dbGames
            /\ procs' = [procs EXCEPT ![p] =
                           Finish([pr EXCEPT !.wrote = TRUE, !.bc = TRUE], "ok")]
            /\ gameConnections' = broadcastGameState(pr.g)
    /\ heap' = Gc([h EXCEPT ![i] = s2], games', procs')

\* this.games.get(gameId): the registered GameState gets the player; when there
\* is none, db.getGamePlayers(gameId) is called.
JoinAttach(p) ==
    LET pr == procs[p] IN
    /\ pr.pc = "j_added"
    /\ IF games[pr.g] # 0
       THEN JoinTail(p, games[pr.g], heap, games)
       ELSE /\ \E rows \in Orderings(dbPlayers[pr.g]) :
                 procs' = [procs EXCEPT ![p] = [pr EXCEPT !.pc = "j_rows", !.rows = rows]]
            /\ UNCHANGED <<games, heap, gameConnections, dbGames>>
    /\ UNCHANGED <<aiOpponents, dbPlayers, sock, ticks, dbFails, hist>>

\* The GameState is rebuilt from the rows read, registered, and gets the player.
JoinRebuild(p, r1, r2) ==
    LET pr == procs[p]
        i == FreeObj
    IN
    /\ pr.pc = "j_rows"
    /\ JoinTail(p, i,
                [heap EXCEPT ![i] = RebuiltState(pr.g, pr.row, pr.rows, r1, r2)],
                [games EXCEPT ![pr.g] = i])
    /\ UNCHANGED <<aiOpponents, dbPlayers, sock, ticks, dbFails, hist>>

\* After db.updateGameStatus(gameId, 'active'): broadcast and return.
JoinFinish(p) ==
    LET pr == procs[p] IN
    /\ pr.pc = "j_status"
    /\ gameConnections' = broadcastGameState(pr.g)
    /\ procs' = [procs EXCEPT ![p] = Finish([pr EXCEPT !.bc = TRUE], "ok")]
    /\ heap' = Gc(heap, games, procs')
    /\ UNCHANGED <<games, aiOpponents, dbGames, dbPlayers, sock, ticks, dbFails, hist>>

---------------------------------------------------------------------------
(* leaveGame *)

\* this.games.get(gameId), then db.removePlayerFromGame(gameId, userId).
LeaveStart(p, g, u) ==
    /\ procs[p].pc = "idle"
    /\ IF games[g] = 0
       THEN /\ procs' = [procs EXCEPT ![p] =
                           Finish([IdleProc EXCEPT !.op = "leave", !.g = g, !.user = u,
                                                   !.pre = PreOf(g)], "NotFound")]
            /\ UNCHANGED dbPlayers
       ELSE /\ procs' = [procs EXCEPT ![p] =
                           [IdleProc EXCEPT !.op = "leave", !.pc = "l_removed", !.g = g,
                                            !.user = u, !.ref = games[g], !.pre = PreOf(g)]]
            /\ dbPlayers' = DbRemove(g, u)
    /\ hist' = NoHist
    /\ UNCHANGED <<games, heap, gameConnections, aiOpponents, dbGames, sock, ticks, dbFails>>

\* gameState.players.filter(p => p.userId !== userId)
FilterPlayers(ps, u) == SelectSeq(ps, LAMBDA pl : pl.userId # u)

\* "End game if no players left or only AI left"
GameEnds(gs) ==
    \/ Len(gs.players) = 0
    \/ gs.isAiGame /\ Len(gs.players) = 1 /\ gs.players[1].isAi

\* The roster is filtered; the game ends (db.updateGameStatus is awaited) or
\* the new roster is broadcast.
LeaveFilter(p) ==
    LET pr == procs[p]
        s1 == [heap[pr.ref] EXCEPT !.players = FilterPlayers(@, pr.user)]
    IN
    /\ pr.pc = "l_removed"
    /\ IF GameEnds(s1)
       THEN /\ dbGames' = DbSetStatus(pr.g, "finished")
            /\ procs' = [procs EXCEPT ![p] = [pr EXCEPT !.pc = "l_status", !.wrote = TRUE]]
            /\ heap' = [heap EXCEPT ![pr.ref] = [s1 EXCEPT !.status = "finished"]]
            /\ UNCHANGED gameConnections
       ELSE /\ UNCHANGED dbGames
            /\ procs' = [procs EXCEPT ![p] =
                           Finish([pr EXCEPT !.wrote = TRUE, !.bc = TRUE], "ok")]
            /\ gameConnections' = broadcastGameState(pr.g)
            /\ heap' = Gc([heap EXCEPT ![pr.ref] = s1], games, procs')
    /\ UNCHANGED <<games, aiOpponents, dbPlayers, sock, ticks, dbFails, hist>>

\* this.games.delete, this.gameConnections.delete, this.aiOpponents.delete
LeaveDelete(p) ==
    LET pr == procs[p] IN
    /\ pr.pc = "l_status"
    /\ games' = [games EXCEPT ![pr.g] = 0]
    /\ gameConnections' = [gameConnections EXCEPT ![pr.g] = NoConnections]
    /\ aiOpponents' = [aiOpponents EXCEPT ![pr.g] = "none"]
    /\ procs' = [procs EXCEPT ![p] = Finish(pr, "ok")]
    /\ heap' = Gc(heap, games', procs')
    /\ UNCHANGED <<dbGames, dbPlayers, sock, ticks, dbFails, hist>>

---------------------------------------------------------------------------
(* handlePlayerMove *)

\* The batch of overlapping moves, when a move by u with paddle y is called.
HistOnMove(g, u, y) ==
    IF games[g] = 0 THEN NoHist
    ELSE IF Quiescent
    THEN [on |-> TRUE, g |-> g, base |-> heap[games[g]],
          moves |-> <<[user |-> u, paddleY |-> y]>>]
    ELSE IF hist.on /\ hist.g = g /\ Len(hist.moves) < 2
    THEN [hist EXCEPT !.moves = Append(@, [user |-> u, paddleY |-> y])]
    ELSE NoHist

\* this.games.get(gameId), then db.isUserInGame(gameId, userId).
MoveStart(p, g, u, y) ==
    /\ procs[p].pc = "idle"
    /\ procs' = [procs EXCEPT ![p] =
                   IF games[g] = 0
                   THEN Finish([IdleProc EXCEPT !.op = "move", !.g = g, !.user = u,
                                                !.pre = PreOf(g)], "NotFound")
                   ELSE [IdleProc EXCEPT !.op = "move", !.pc = "m_isin", !.g = g, !.user = u,
                                         !.num = y, !.ref = games[g],
                                         !.idx = IF DbHas(g, u) THEN 1 ELSE 0,
                                         !.pre = PreOf(g)]]
    /\ hist' = HistOnMove(g, u, y)
    /\ UNCHANGED <<games, heap, gameConnections, aiOpponents, dbGames, dbPlayers, sock, ticks, dbFails>>

\* The paddle update without the clamp.
SetPaddleUnclamped(gs, u, y) ==
    LET i == FindUser(gs.players, u)
    IN IF i = 0 THEN gs ELSE [gs EXCEPT !.players[i].paddleY = y]

\* player.paddleY = Math.max(0.1, Math.min(0.9, paddleY)), for the player found.
SetPaddle(gs, u, y) ==
    LET i == FindUser(gs.players, u)
    IN IF i = 0 THEN gs
       ELSE [gs EXCEPT !.players[i].paddleY = Clamp(PaddleMin, PaddleMax, y)]

\* The step of handlePlayerMove after isUserInGame without the test of the status.
MoveApplyAnyStatus(p, fail) ==
    LET pr == procs[p] IN
    /\ pr.pc = "m_isin"
    /\ IF pr.idx = 0
       THEN /\ procs' = [procs EXCEPT ![p] = Finish(pr, "Forbidden")]
            /\ heap' = Gc(heap, games, procs')
            /\ UNCHANGED <<dbFails, hist>>
       ELSE /\ procs' = [procs EXCEPT ![p] =
                           IF fail THEN Finish([pr EXCEPT !.wrote = TRUE], "PersistenceError")
                           ELSE [pr EXCEPT !.pc = "m_rec", !.num = 0, !.idx = 0, !.wrote = TRUE]]
            /\ heap' = Gc([heap EXCEPT ![pr.ref] = SetPaddle(@, pr.user, pr.num)], games, procs')
            /\ dbFails' = IF fail THEN dbFails + 1 ELSE dbFails
            /\ hist' = IF fail THEN NoHist ELSE hist
    /\ UNCHANGED <<games, gameConnections, aiOpponents, dbGames, dbPlayers, sock, ticks>>

\* 'User not in game', 'Game is not active', else the paddle is set and
\* db.recordGameMove is called; fail: that call fails.
MoveApply(p, fail) ==
    LET pr == procs[p] IN
    /\ pr.pc = "m_isin"
    /\ IF pr.idx = 0 \/ heap[pr.ref].status # "active"
       THEN /\ procs' = [procs EXCEPT ![p] =
                           Finish(pr, IF pr.idx = 0 THEN "Forbidden" ELSE "Conflict")]
            /\ heap' = Gc(heap, games, procs')
            /\ UNCHANGED <<dbFails, hist>>
       ELSE /\ procs' = [procs EXCEPT ![p] =
                           IF fail THEN Finish([pr EXCEPT !.wrote = TRUE], "PersistenceError")
                           ELSE [pr EXCEPT !.pc = "m_rec", !.num = 0, !.idx = 0, !.wrote = TRUE]]
            /\ heap' = Gc([heap EXCEPT ![pr.ref] = SetPaddle(@, pr.user, pr.num)], games, procs')
            /\ dbFails' = IF fail THEN dbFails + 1 ELSE dbFails
            /\ hist' = IF fail THEN NoHist ELSE hist
    /\ UNCHANGED <<games, gameConnections, aiOpponents, dbGames, dbPlayers, sock, ticks>>

\* The synthetic opponent's paddle: aiPlayer.paddleY = calculateAIMove(...).
SetAiPaddle(gs, cfg, r) ==
    LET i == FindAi(gs.players)
    IN IF gs.isAiGame /\ i # 0
       THEN [gs EXCEPT !.players[i].paddleY = calculateAIMove(cfg, gs.ball, r)]
       ELSE gs

HasAi(gs) == gs.isAiGame /\ FindAi(gs.players) # 0

\* In a game with a synthetic opponent: its paddle is set and
\* db.recordGameMove is called for it; r is the draw, fail: that call fails.
MoveAi(p, r, fail) ==
    LET pr == procs[p] IN
    /\ pr.pc = "m_rec"
    /\ HasAi(heap[pr.ref])
    /\ procs' = [procs EXCEPT ![p] =
                   IF fail THEN Finish(pr, "PersistenceError") ELSE [pr EXCEPT !.pc = "m_ai"]]
    /\ heap' = Gc([heap EXCEPT ![pr.ref] = SetAiPaddle(@, aiOpponents[pr.g], r)], games, procs')
    /\ dbFails' = IF fail THEN dbFails + 1 ELSE dbFails
    /\ hist' = IF fail THEN NoHist ELSE hist
    /\ UNCHANGED <<games, gameConnections, aiOpponents, dbGames, dbPlayers, sock, ticks>>

\* updateBallPhysics, then the loop over gameState.players begins:
\* db.updatePlayerScore is called for the first player, or, with no player,
\* the snapshot is broadcast.  r is the draw of resetBall, fail: the call fails.
MovePhysics(p, r, fail) ==
    LET pr == procs[p]
        s1 == updateBallPhysics(heap[pr.ref], r)
        none == Len(s1.players) = 0
    IN
    /\ pr.pc = "m_ai" \/ (pr.pc = "m_rec" /\ ~HasAi(heap[pr.ref]))
    /\ ticks' = ticks + 1
    /\ IF none
       THEN /\ procs' = [procs EXCEPT ![p] = Finish([pr EXCEPT !.phys = TRUE, !.bc = TRUE], "ok")]
            /\ gameConnections' = broadcastGameState(pr.g)
            /\ UNCHANGED <<dbPlayers, dbFails, hist>>
       ELSE /\ procs' = [procs EXCEPT ![p] =
                           IF fail THEN Finish([pr EXCEPT !.phys = TRUE], "PersistenceError")
                           ELSE [pr EXCEPT !.pc = "m_scores", !.idx = 2, !.phys = TRUE]]
            /\ dbPlayers' = IF fail THEN dbPlayers
                            ELSE DbSetScore(pr.g, s1.players[1].userId, s1.players[1].score)
            /\ dbFails' = IF fail THEN dbFails + 1 ELSE dbFails
            /\ hist' = IF fail THEN NoHist ELSE hist
            /\ UNCHANGED gameConnections
    /\ heap' = Gc([heap EXCEPT ![pr.ref] = s1], games, procs')
    /\ UNCHANGED <<games, aiOpponents, dbGames, sock>>

\* The loop goes on: db.updatePlayerScore for the next player of the roster as
\* it now stands, or, past the last one, the snapshot is broadcast.
MoveScores(p, fail) ==
    LET pr == procs[p]
        ps == heap[pr.ref].players
    IN
    /\ pr.pc = "m_scores"
    /\ IF pr.idx > Len(ps)
       THEN /\ procs' = [procs EXCEPT ![p] = Finish([pr EXCEPT !.bc = TRUE], "ok")]
            /\ gameConnections' = broadcastGameState(pr.g)
            /\ UNCHANGED <<dbPlayers, dbFails, hist>>
       ELSE /\ procs' = [procs EXCEPT ![p] =
                           IF fail THEN Finish(pr, "PersistenceError")
                           ELSE [pr EXCEPT !.idx = @ + 1]]
            /\ dbPlayers' = IF fail THEN dbPlayers
                            ELSE DbSetScore(pr.g, ps[pr.idx].userId, ps[pr.idx].score)
            /\ dbFails' = IF fail THEN dbFails + 1 ELSE dbFails
            /\ hist' = IF fail THEN NoHist ELSE hist
            /\ UNCHANGED gameConnections
    /\ heap' = Gc(heap, games, procs')
    /\ UNCHANGED <<games, aiOpponents, dbGames, sock, ticks>>

---------------------------------------------------------------------------
(* updateScore *)

\* this.games.get(gameId); the player found gets the score and
\* db.updatePlayerScore is called (fail: that call fails); with no such
\* player the snapshot is broadcast at once.
ScoreStart(p, g, u, sc, fail) ==
    LET pr0 == [IdleProc EXCEPT !.op = "score", !.g = g, !.user = u, !.pre = PreOf(g)]
        i == IF games[g] = 0 THEN 0 ELSE FindUser(heap[games[g]].players, u)
    IN
    /\ procs[p].pc = "idle"
    /\ hist' = NoHist
    /\ IF games[g] = 0
       THEN /\ procs' = [procs EXCEPT ![p] = Finish(pr0, "NotFound")]
            /\ UNCHANGED <<heap, gameConnections, dbPlayers, dbFails>>
       ELSE IF i = 0
       THEN /\ procs' = [procs EXCEPT ![p] = Finish([pr0 EXCEPT !.bc = TRUE], "ok")]
            /\ gameConnections' = broadcastGameState(g)
            /\ UNCHANGED <<heap, dbPlayers, dbFails>>
       ELSE /\ procs' = [procs EXCEPT ![p] =
                           IF fail THEN Finish([pr0 EXCEPT !.wrote = TRUE], "PersistenceError")
                           ELSE [pr0 EXCEPT !.pc = "s_upd", !.ref = games[g], !.wrote = TRUE]]
            /\ heap' = Gc([heap EXCEPT ![games[g]].players[i].score = sc], games, procs')
            /\ dbPlayers' = IF fail THEN dbPlayers ELSE DbSetScore(g, u, sc)
            /\ dbFails' = IF fail THEN dbFails + 1 ELSE dbFails
            /\ UNCHANGED gameConnections
    /\ UNCHANGED <<games, aiOpponents, dbGames, sock, ticks>>

\* After db.updatePlayerScore: broadcast and return.
ScoreFinish(p) ==
    LET pr == procs[p] IN
    /\ pr.pc = "s_upd"
    /\ gameConnections' = broadcastGameState(pr.g)
    /\ procs' = [procs EXCEPT ![p] = Finish([pr EXCEPT !.bc = TRUE], "ok")]
    /\ heap' = Gc(heap, games, procs')
    /\ UNCHANGED <<games, aiOpponents, dbGames, dbPlayers, sock, ticks, dbFails, hist>>

---------------------------------------------------------------------------
(* getGameState *)

\* this.games.get(gameId); when there is none, db.findGameById is called.
GetBody(p, g) ==
    procs' = [procs EXCEPT ![p] =
                IF games[g] # 0
                THEN Finish([IdleProc EXCEPT !.op = "get", !.g = g, !.pre = PreOf(g)], "ok")
                ELSE [IdleProc EXCEPT !.op = "get", !.pc = "g_game", !.g = g,
                                      !.row = dbGames[g].status, !.pre = PreOf(g)]]

GetStart(p, g) ==
    /\ procs[p].pc = "idle"
    /\ GetBody(p, g)
    /\ hist' = NoHist
    /\ UNCHANGED <<games, heap, gameConnections, aiOpponents, dbGames, dbPlayers, sock, ticks, dbFails>>

\* No row: null is returned; else db.getGamePlayers is called.
GetRows(p) ==
    LET pr == procs[p] IN
    /\ pr.pc = "g_game"
    /\ IF pr.row = "norow"
       THEN procs' = [procs EXCEPT ![p] = Finish(pr, "null")]
       ELSE \E rows \in Orderings(dbPlayers[pr.g]) :
               procs' = [procs EXCEPT ![p] = [pr EXCEPT !.pc = "g_rows", !.rows = rows]]
    /\ UNCHANGED <<games, heap, gameConnections, aiOpponents, dbGames, dbPlayers, sock, ticks, dbFails, hist>>

\* The GameState is rebuilt from the rows read and registered.
GetRebuild(p, r1, r2) ==
    LET pr == procs[p]
        i == FreeObj
    IN
    /\ pr.pc = "g_rows"
    /\ games' = [games EXCEPT ![pr.g] = i]
    /\ procs' = [procs EXCEPT ![p] = Finish([pr EXCEPT !.wrote = TRUE], "ok")]
    /\ heap' = Gc([heap EXCEPT ![i] = RebuiltState(pr.g, pr.row, pr.rows, r1, r2)],
                  games', procs')
    /\ UNCHANGED <<gameConnections, aiOpponents, dbGames, dbPlayers, sock, ticks, dbFails, hist>>

---------------------------------------------------------------------------
(* Responses and sockets *)

\* The route or the socket handler answers the caller; the slot is free again.
Return(p) ==
    /\ procs[p].pc = "done"
    /\ procs' = [procs EXCEPT ![p] = IdleProc]
    /\ hist' = IF \A q \in Procs \ {p} : procs[q].pc = "idle" THEN NoHist ELSE hist
    /\ UNCHANGED <<games, heap, gameConnections, aiOpponents, dbGames, dbPlayers, sock, ticks, dbFails>>

\* A socket opens on /ws/game/:gameId: addConnection, then getGameState.
Connect(p, c, g) ==
    /\ sock[c] = "closed"
    /\ procs[p].pc = "idle"
    /\ sock' = [sock EXCEPT ![c] = "open"]
    /\ gameConnections' = addConnection(g, c)
    /\ GetBody(p, g)
    /\ hist' = NoHist
    /\ UNCHANGED <<games, heap, aiOpponents, dbGames, dbPlayers, ticks, dbFails>>

\* The peer goes away: from now on send throws on this socket.
SockBreak(c) ==
    /\ sock[c] = "open"
    /\ sock' = [sock EXCEPT ![c] = "broken"]
    /\ UNCHANGED <<games, heap, gameConnections, aiOpponents, dbGames, dbPlayers, procs, ticks, dbFails, hist>>

\* The 'close' (or 'error') event of the socket: removeConnection.
SockClose(c, g) ==
    /\ sock[c] # "closed"
    /\ sock' = [sock EXCEPT ![c] = "closed"]
    /\ gameConnections' = removeConnection(g, c)
    /\ UNCHANGED <<games, heap, aiOpponents, dbGames, dbPlayers, procs, ticks, dbFails, hist>>

---------------------------------------------------------------------------
(* The message handler of a socket *)

\* The handler of a message whose reply is sent at once on the socket c the
\* message came from; the reply is kept in res and the socket in str.
Replied(g, c, op, reply) ==
    [Finish([IdleProc EXCEPT !.op = op, !.g = g, !.pre = PreOf(g)], reply) EXCEPT !.str = c]

\* The handler of an unparsable payload that closes the socket after the reply.
MessageUnparsableClosing(p, c, g) ==
    /\ procs[p].pc = "idle"
    /\ sock[c] = "open"
    /\ procs' = [procs EXCEPT ![p] = Replied(g, c, "unparsable", "error")]
    /\ sock' = [sock EXCEPT ![c] = "closed"]
    /\ gameConnections' = removeConnection(g, c)
    /\ hist' = NoHist
    /\ UNCHANGED <<games, heap, aiOpponents, dbGames, dbPlayers, ticks, dbFails>>

\* JSON.parse throws: the catch block sends {type: 'error', ...} on the socket.
MessageUnparsable(p, c, g) ==
    /\ procs[p].pc = "idle"
    /\ sock[c] = "open"
    /\ procs' = [procs EXCEPT ![p] = Replied(g, c, "unparsable", "error")]
    /\ hist' = NoHist
    /\ UNCHANGED <<games, heap, gameConnections, aiOpponents, dbGames, dbPlayers, sock, ticks, dbFails>>

\* case 'ping': {type: 'pong', ...} is sent on the socket.
MessagePing(p, c, g) ==
    /\ procs[p].pc = "idle"
    /\ sock[c] = "open"
    /\ procs' = [procs EXCEPT ![p] = Replied(g, c, "ping", "pong")]
    /\ hist' = NoHist
    /\ UNCHANGED <<games, heap, gameConnections, aiOpponents, dbGames, dbPlayers, sock, ticks, dbFails>>

\* case 'game_ready': {type: 'ready_acknowledged', ...} is sent on the socket.
MessageReady(p, c, g) ==
    /\ procs[p].pc = "idle"
    /\ sock[c] = "open"
    /\ procs' = [procs EXCEPT ![p] = Replied(g, c, "ready", "ready_acknowledged")]
    /\ hist' = NoHist
    /\ UNCHANGED <<games, heap, gameConnections, aiOpponents, dbGames, dbPlayers, sock, ticks, dbFails>>

\* case 'pause_request' that marks the registered session paused.
PauseRequestPausing(p, c, g) ==
    /\ procs[p].pc = "idle"
    /\ sock[c] = "open"
    /\ games[g] # 0
    /\ procs' = [procs EXCEPT ![p] =
                   Finish([IdleProc EXCEPT !.op = "pause", !.g = g, !.pre = PreOf(g)], "ok")]
    /\ heap' = [heap EXCEPT ![games[g]].status = "paused"]
    /\ hist' = NoHist
    /\ UNCHANGED <<games, gameConnections, aiOpponents, dbGames, dbPlayers, sock, ticks, dbFails>>

\* case 'pause_request': getGameState(gameId) is awaited; the message built
\* for an active game is not sent.
PauseRequest(p, c, g) ==
    /\ procs[p].pc = "idle"
    /\ sock[c] = "open"
    /\ procs' = [procs EXCEPT ![p] =
                   IF games[g] # 0
                   THEN Finish([IdleProc EXCEPT !.op = "pause", !.g = g, !.pre = PreOf(g)], "ok")
                   ELSE [IdleProc EXCEPT !.op = "pause", !.pc = "g_game", !.g = g,
                                         !.row = dbGames[g].status, !.pre = PreOf(g)]]
    /\ hist' = NoHist
    /\ UNCHANGED <<games, heap, gameConnections, aiOpponents, dbGames, dbPlayers, sock, ticks, dbFails>>

---------------------------------------------------------------------------
(* Specifications *)

Conns == {"c1", "c2"}

Init ==
    /\ games = [g \in GameIds |-> 0]
    /\ heap = [i \in ObjIds |-> DeadSession]
    /\ gameConnections = [g \in GameIds |-> NoConnections]
    /\ aiOpponents = [g \in GameIds |-> "none"]
    /\ dbGames = [g \in GameIds |-> NoRow]
    /\ dbPlayers = [g \in GameIds |-> {}]
    /\ sock = [c \in Conns |-> "closed"]
    /\ procs = [p \in Procs |-> IdleProc]
    /\ ticks = 0
    /\ dbFails = 0
    /\ hist = NoHist

\* Identities, draws of Math.random() and room codes offered.
Users == {"u1", "u2", "u3"}
Draws == {2000}

\* The sequential specification: one handler at a time, every operation.
SeqProcs == {1}
SeqSizes == {2, 3}
SeqPaddles == {12000}
SeqScores == {11}
SeqTiers == {"expert"}
SeqPrivacy == {FALSE}
SeqRoomCodes == {"none"}

NextSeq ==
    \/ \E p \in SeqProcs, g \in GameIds :
        \/ \E priv \in SeqPrivacy, maxp \in SeqSizes : CreateStart(p, g, "u1", priv, maxp)
        \/ \E d \in SeqTiers : CreateAIStart(p, g, "u1", d)
        \/ \E u \in Users, code \in SeqRoomCodes : JoinStart(p, g, u, code)
        \/ \E u \in Users : LeaveStart(p, g, u)
        \/ \E u \in Users, y \in SeqPaddles : ticks < MaxTicks /\ MoveStart(p, g, u, y)
        \/ \E u \in Users, sc \in SeqScores, fail \in DbOutcomes : ScoreStart(p, g, u, sc, fail)
        \/ GetStart(p, g)
    \/ \E p \in SeqProcs :
        \/ CreateAddPlayer(p)
        \/ \E r1, r2 \in Draws : CreateFinish(p, r1, r2)
        \/ CreateAIAddUser(p)
        \/ CreateAIAddAi(p)
        \/ \E r1, r2 \in Draws : CreateAIFinish(p, r1, r2)
        \/ JoinCount(p)
        \/ JoinIsIn(p)
        \/ JoinAdd(p)
        \/ JoinAttach(p)
        \/ \E r1, r2 \in Draws : JoinRebuild(p, r1, r2)
        \/ JoinFinish(p)
        \/ LeaveFilter(p)
        \/ LeaveDelete(p)
        \/ \E fail \in DbOutcomes : MoveApply(p, fail)
        \/ \E r \in Draws, fail \in DbOutcomes : MoveAi(p, r, fail)
        \/ \E r \in Draws, fail \in DbOutcomes : MovePhysics(p, r, fail)
        \/ \E fail \in DbOutcomes : MoveScores(p, fail)
        \/ ScoreFinish(p)
        \/ GetRows(p)
        \/ \E r1, r2 \in Draws : GetRebuild(p, r1, r2)
        \/ Return(p)

SpecSeq == Init /\ [][NextSeq]_vars

\* The lobby specification: two handlers in flight, the roster operations.
LobbyJoiners == {"u2", "u3"}
LobbyLeavers == {"u1"}
LobbyConns == {"c1"}

\* The game id is random: callers learn it from the response of create.
IdKnown(g) ==
    dbGames[g] # NoRow /\ \A q \in Procs : procs[q].op \notin {"create", "createAI"}

NextLobby ==
    \/ \E p \in Procs, g \in GameIds :
        \/ CreateStart(p, g, "u1", FALSE, 2)
        \/ \E u \in LobbyJoiners : IdKnown(g) /\ JoinStart(p, g, u, "none")
        \/ \E u \in LobbyLeavers : IdKnown(g) /\ LeaveStart(p, g, u)
        \/ IdKnown(g) /\ GetStart(p, g)
        \/ \E c \in LobbyConns : IdKnown(g) /\ Connect(p, c, g)
    \/ \E c \in LobbyConns, g \in GameIds : SockClose(c, g)
    \/ \E c \in LobbyConns : SockBreak(c)
    \/ \E p \in Procs :
        \/ CreateAddPlayer(p)
        \/ \E r1, r2 \in Draws : CreateFinish(p, r1, r2)
        \/ JoinCount(p)
        \/ JoinIsIn(p)
        \/ JoinAdd(p)
        \/ JoinAttach(p)
        \/ \E r1, r2 \in Draws : JoinRebuild(p, r1, r2)
        \/ JoinFinish(p)
        \/ LeaveFilter(p)
        \/ LeaveDelete(p)
        \/ GetRows(p)
        \/ \E r1, r2 \in Draws : GetRebuild(p, r1, r2)
        \/ Return(p)

SpecLobby == Init /\ [][NextLobby]_vars

\* The rally specification: two handlers in flight; u1 creates a game for
\* two, u2 joins it while it waits, then u1 moves and u2's score is reported.
RallyPaddles == {5000, 12000}
RallyScores == {10}

NextRally ==
    \/ \E p \in Procs, g \in GameIds :
        \/ CreateStart(p, g, "u1", FALSE, 2)
        \/ games[g] # 0 /\ heap[games[g]].status = "waiting" /\ JoinStart(p, g, "u2", "none")
        \/ \E y \in RallyPaddles : ticks < MaxTicksDeep /\ games[g] # 0 /\ MoveStart(p, g, "u1", y)
        \/ \E sc \in RallyScores : games[g] # 0 /\ ScoreStart(p, g, "u2", sc, FALSE)
    \/ \E p \in Procs :
        \/ CreateAddPlayer(p)
        \/ \E r1, r2 \in Draws : CreateFinish(p, r1, r2)
        \/ JoinCount(p)
        \/ JoinIsIn(p)
        \/ JoinAdd(p)
        \/ JoinAttach(p)
        \/ JoinFinish(p)
        \/ MoveApply(p, FALSE)
        \/ \E r \in Draws : MovePhysics(p, r, FALSE)
        \/ MoveScores(p, FALSE)
        \/ ScoreFinish(p)
        \/ Return(p)

SpecRally == Init /\ [][NextRally]_vars

---------------------------------------------------------------------------
(* The match specification *)

\* One handler at a time and no persistence failure: u1 creates a game for
\* two or a game against the synthetic opponent, u2 joins the game for two
\* and may leave it, both move, and u2's score is reported.
MatchProcs == {1}
MatchMovers == {"u1", "u2"}
MatchPaddles == {-2000, 5000, 12000}
MatchScores == {3, 7}

NextMatch ==
    \/ \E p \in MatchProcs, g \in GameIds :
        \/ CreateStart(p, g, "u1", FALSE, 2)
        \/ CreateAIStart(p, g, "u1", "expert")
        \/ games[g] # 0 /\ heap[games[g]].status = "waiting" /\ JoinStart(p, g, "u2", "none")
        \/ games[g] # 0 /\ LeaveStart(p, g, "u2")
        \/ \E u \in MatchMovers, y \in MatchPaddles :
              ticks < MaxTicksDeep /\ games[g] # 0 /\ MoveStart(p, g, u, y)
        \/ \E sc \in MatchScores : games[g] # 0 /\ ScoreStart(p, g, "u2", sc, FALSE)
    \/ \E p \in MatchProcs :
        \/ CreateAddPlayer(p)
        \/ \E r1, r2 \in Draws : CreateFinish(p, r1, r2)
        \/ CreateAIAddUser(p)
        \/ CreateAIAddAi(p)
        \/ \E r1, r2 \in Draws : CreateAIFinish(p, r1, r2)
        \/ JoinCount(p)
        \/ JoinIsIn(p)
        \/ JoinAdd(p)
        \/ JoinAttach(p)
        \/ JoinFinish(p)
        \/ LeaveFilter(p)
        \/ MoveApply(p, FALSE)
        \/ \E r \in Draws : MoveAi(p, r, FALSE)
        \/ \E r \in Draws : MovePhysics(p, r, FALSE)
        \/ MoveScores(p, FALSE)
        \/ ScoreFinish(p)
        \/ Return(p)

SpecMatch == Init /\ [][NextMatch]_vars

---------------------------------------------------------------------------
(* The physics specification *)

\* updateBallPhysics applied from ball states of a rally in progress: the
\* game for two of u1 and u2 is active, its ball is drawn from PhysBalls
\* (near either paddle plane or the centre, near either wall or the centre,
\* with the velocities and the speed that serves and paddle hits produce),
\* and both players move.
MaxSteps == 2
PhysProcs == {1}
PhysPaddles == {-2000, 4000, 12000}
PhysBalls ==
    [x : {30, 300, 5000, 9700, 9970}, y : {10, 40, 4000, 9960}, vx : {-6000, 6000},
     vy : {-6000, -1200, 6000}, speed : {Scale, 11025}]

InitPhysics ==
    /\ \E b \in PhysBalls, g0 \in GameIds :
          /\ games = [g \in GameIds |-> IF g = g0 THEN 1 ELSE 0]
          /\ heap = [i \in ObjIds |->
                       IF i = 1
                       THEN [PushPlayer(PvPState("u1", FALSE, 2, 0, 0), "u2")
                                EXCEPT !.status = "active", !.started = TRUE, !.ball = b]
                       ELSE DeadSession]
          /\ gameConnections = [g \in GameIds |->
                                  IF g = g0 THEN [present |-> TRUE, conns |-> {}]
                                  ELSE NoConnections]
          /\ dbGames = [g \in GameIds |->
                          IF g = g0
                          THEN [status |-> "active", is_private |-> FALSE, max_players |-> 2,
                                room_code |-> "none", is_ai_game |-> FALSE,
                                difficulty |-> "none"]
                          ELSE NoRow]
          /\ dbPlayers = [g \in GameIds |->
                            IF g = g0
                            THEN {[user_id |-> u, is_ai |-> FALSE, score |-> 0] : u \in {"u1", "u2"}}
                            ELSE {}]
    /\ aiOpponents = [g \in GameIds |-> "none"]
    /\ sock = [c \in Conns |-> "closed"]
    /\ procs = [p \in Procs |-> IdleProc]
    /\ ticks = 0
    /\ dbFails = 0
    /\ hist = NoHist

NextPhysics ==
    \/ \E p \in PhysProcs, g \in GameIds, u \in {"u1", "u2"}, y \in PhysPaddles :
          ticks < MaxSteps /\ MoveStart(p, g, u, y)
    \/ \E p \in PhysProcs :
        \/ MoveApply(p, FALSE)
        \/ \E r \in Draws : MovePhysics(p, r, FALSE)
        \/ MoveScores(p, FALSE)
        \/ Return(p)

SpecPhysics == InitPhysics /\ [][NextPhysics]_vars

---------------------------------------------------------------------------
(* The hub specification *)

\* One handler at a time: u1 creates a game for two, sockets attach to it,
\* break and close, and the snapshot is broadcast by joins and score updates.
HubProcs == {1}
HubScores == {3}

NextHub ==
    \/ \E p \in HubProcs, g \in GameIds :
        \/ CreateStart(p, g, "u1", FALSE, 2)
        \/ \E c \in Conns : games[g] # 0 /\ Connect(p, c, g)
        \/ games[g] # 0 /\ JoinStart(p, g, "u2", "none")
        \/ \E sc \in HubScores : games[g] # 0 /\ ScoreStart(p, g, "u1", sc, FALSE)
    \/ \E c \in Conns, g \in GameIds : SockClose(c, g)
    \/ \E c \in Conns : SockBreak(c)
    \/ \E p \in HubProcs :
        \/ CreateAddPlayer(p)
        \/ \E r1, r2 \in Draws : CreateFinish(p, r1, r2)
        \/ JoinCount(p)
        \/ JoinIsIn(p)
        \/ JoinAdd(p)
        \/ JoinAttach(p)
        \/ JoinFinish(p)
        \/ ScoreFinish(p)
        \/ Return(p)

SpecHub == Init /\ [][NextHub]_vars

---------------------------------------------------------------------------
(* The synthetic-opponent specification *)

\* One handler at a time and no persistence failure: any identity creates a
\* game against the synthetic opponent of any tier, and any identity moves.
MaxSynthTicks == 3
SynthProcs == {1}
SynthTiers == {"easy", "medium", "hard", "expert"}
SynthPaddles == {5000}
SynthDraws == {1000, 9000}

NextSynth ==
    \/ \E p \in SynthProcs, g \in GameIds :
        \/ \E u \in Users, d \in SynthTiers : CreateAIStart(p, g, u, d)
        \/ \E u \in Users, y \in SynthPaddles :
              ticks < MaxSynthTicks /\ games[g] # 0 /\ MoveStart(p, g, u, y)
    \/ \E p \in SynthProcs :
        \/ CreateAIAddUser(p)
        \/ CreateAIAddAi(p)
        \/ \E r1, r2 \in Draws : CreateAIFinish(p, r1, r2)
        \/ MoveApply(p, FALSE)
        \/ \E r \in SynthDraws : MoveAi(p, r, FALSE)
        \/ \E r \in Draws : MovePhysics(p, r, FALSE)
        \/ MoveScores(p, FALSE)
        \/ Return(p)

SpecSynth == Init /\ [][NextSynth]_vars

---------------------------------------------------------------------------
(* The channel specification *)

\* One handler at a time and no persistence failure: u1 creates a game for
\* two, u2 joins, either leaves, u1 moves, u2's score is reported, the state
\* is read, and a socket attaches to the game, sends messages of every kind
\* and closes.
ChannelProcs == {1}
ChannelLeavers == {"u1", "u2"}
ChannelPaddles == {12000}
ChannelScores == {3}

NextChannel ==
    \/ \E p \in ChannelProcs, g \in GameIds :
        \/ CreateStart(p, g, "u1", FALSE, 2)
        \/ IdKnown(g) /\ JoinStart(p, g, "u2", "none")
        \/ \E u \in ChannelLeavers : IdKnown(g) /\ LeaveStart(p, g, u)
        \/ \E y \in ChannelPaddles : ticks < MaxTicks /\ IdKnown(g) /\ MoveStart(p, g, "u1", y)
        \/ \E sc \in ChannelScores : IdKnown(g) /\ ScoreStart(p, g, "u2", sc, FALSE)
        \/ IdKnown(g) /\ GetStart(p, g)
        \/ \E c \in LobbyConns :
              \/ IdKnown(g) /\ Connect(p, c, g)
              \/ MessageUnparsable(p, c, g)
              \/ MessagePing(p, c, g)
              \/ MessageReady(p, c, g)
              \/ PauseRequest(p, c, g)
    \/ \E c \in LobbyConns, g \in GameIds : SockClose(c, g)
    \/ \E p \in ChannelProcs :
        \/ CreateAddPlayer(p)
        \/ \E r1, r2 \in Draws : CreateFinish(p, r1, r2)
        \/ JoinCount(p)
        \/ JoinIsIn(p)
        \/ JoinAdd(p)
        \/ JoinAttach(p)
        \/ \E r1, r2 \in Draws : JoinRebuild(p, r1, r2)
        \/ JoinFinish(p)
        \/ LeaveFilter(p)
        \/ LeaveDelete(p)
        \/ MoveApply(p, FALSE)
        \/ \E r \in Draws : MovePhysics(p, r, FALSE)
        \/ MoveScores(p, FALSE)
        \/ ScoreFinish(p)
        \/ GetRows(p)
        \/ \E r1, r2 \in Draws : GetRebuild(p, r1, r2)
        \/ Return(p)

SpecChannel == Init /\ [][NextChannel]_vars

---------------------------------------------------------------------------
(* The serve specification *)

\* One handler at a time and no persistence failure: u1 creates a game for
\* two, u2 joins, and both move long enough for two points to be played.
MaxServeTicks == 104
ServeProcs == {1}
ServeMovers == {"u1", "u2"}
ServePaddles == {5000, 12000}

NextServe ==
    \/ \E p \in ServeProcs, g \in GameIds :
        \/ CreateStart(p, g, "u1", FALSE, 2)
        \/ games[g] # 0 /\ heap[games[g]].status = "waiting" /\ JoinStart(p, g, "u2", "none")
        \/ \E u \in ServeMovers, y \in ServePaddles :
              ticks < MaxServeTicks /\ games[g] # 0 /\ heap[games[g]].status = "active"
                 /\ MoveStart(p, g, u, y)
    \/ \E p \in ServeProcs :
        \/ CreateAddPlayer(p)
        \/ \E r1, r2 \in Draws : CreateFinish(p, r1, r2)
        \/ JoinCount(p)
        \/ JoinIsIn(p)
        \/ JoinAdd(p)
        \/ JoinAttach(p)
        \/ JoinFinish(p)
        \/ MoveApply(p, FALSE)
        \/ \E r \in Draws : MovePhysics(p, r, FALSE)
        \/ MoveScores(p, FALSE)
        \/ Return(p)

SpecServe == Init /\ [][NextServe]_vars

---------------------------------------------------------------------------
(* Claims *)

Registered(g) == games[g] # 0
Session(g) == heap[games[g]]

\* handlePlayerMove run without suspension on gs: ra is the draw of
\* calculateAIMove, rp the draw of resetBall.
MoveAtomic(gs, g, m, ra, rp) ==
    IF ~DbHas(g, m.user) \/ gs.status # "active" THEN gs
    ELSE updateBallPhysics(SetAiPaddle(SetPaddle(gs, m.user, m.paddleY), aiOpponents[g], ra), rp)

\* The results of running the moves ms one at a time, in every order and with every draw.
SerialOutcomes(base, g, ms) ==
    IF Len(ms) = 1
    THEN {MoveAtomic(base, g, ms[1], ra, rp) : ra \in Draws, rp \in Draws}
    ELSE {MoveAtomic(MoveAtomic(base, g, ms[o[1]], d[1], d[2]), g, ms[o[2]], d[3], d[4]) :
             o \in {<<1, 2>>, <<2, 1>>}, d \in [1..4 -> Draws]}

\* C1: when the moves of a batch of overlapping handlePlayerMove calls have all
\* returned, the session (paddles, scores, ball) is what running those moves
\* one at a time in some order would have produced.
C1_MovesSerializable ==
    (hist.on /\ Registered(hist.g) /\ \A p \in Procs : procs[p].pc \in {"idle", "done"})
        => Session(hist.g) \in SerialOutcomes(hist.base, hist.g, hist.moves)

\* A move between its first mutation (the paddle update) and its broadcast.
MidMove(p) == procs[p].op = "move" /\ procs[p].pc \in {"m_rec", "m_ai", "m_scores"}

\* C2: between the first mutation of a move and its broadcast, no step of
\* another handler on the same session executes.
C2_MoveIsAtomic ==
    [][\A p, q \in Procs :
          (p # q /\ MidMove(p) /\ procs[q].pc # "done"
             /\ (procs[q].pc = "idle" \/ procs[q].g = procs[p].g))
          => (procs'[q] = procs[q] \/ procs'[q].g # procs[p].g)]_vars

\* C3: a move whose persistence call failed has still applied the paddle
\* update and the physics step and has broadcast the snapshot.
C3_PersistenceFailureDoesNotBlock ==
    \A p \in Procs :
        (procs[p].op = "move" /\ procs[p].pc = "done" /\ procs[p].res = "PersistenceError")
        => (procs[p].wrote /\ procs[p].phys /\ procs[p].bc)

\* C4: a registered session whose status is finished keeps that status.
C4_FinishedNeverRegresses ==
    [][\A g \in GameIds :
          (Registered(g) /\ Session(g).status = "finished" /\ games'[g] # 0)
          => heap'[games'[g]].status = "finished"]_vars

HasWinner(gs) == \E i \in 1..Len(gs.players) : gs.players[i].score >= WinningScore

\* C5: a registered session is finished exactly when some participant's
\* score has reached the winning score.
C5_FinishedIffWinner ==
    \A g \in GameIds :
        Registered(g) => (Session(g).status = "finished" <=> HasWinner(Session(g)))

\* C6: no step changes the ball, a paddle position or a score of a registered
\* session whose status is finished.
C6_FinishedIsFrozen ==
    [][\A g \in GameIds :
          (Registered(g) /\ Session(g).status = "finished")
          => /\ heap'[games[g]].ball = Session(g).ball
             /\ \A i \in 1..Len(Session(g).players) :
                   \A j \in 1..Len(heap'[games[g]].players) :
                      heap'[games[g]].players[j].userId = Session(g).players[i].userId
                      => /\ heap'[games[g]].players[j].paddleY = Session(g).players[i].paddleY
                         /\ heap'[games[g]].players[j].score = Session(g).players[i].score]_vars

SideCount(gs, side) == Cardinality({i \in 1..Len(gs.players) : gs.players[i].side = side})

\* C7: a registered session whose status is active has exactly one left and
\* exactly one right participant.
C7_ActiveHasBothSides ==
    \A g \in GameIds :
        (Registered(g) /\ Session(g).status = "active")
        => (SideCount(Session(g), "left") = 1 /\ SideCount(Session(g), "right") = 1)

\* C8: the roster of a registered session never holds more participants than
\* its maximum.
C8_RosterWithinMax ==
    \A g \in GameIds :
        Registered(g) => Len(Session(g).players) <= Session(g).maxPlayers

\* C9: a join called on a session whose roster holds maxPlayers participants
\* fails with Conflict(full), changes nothing and broadcasts nothing.
C9_JoinFullRejected ==
    \A p \in Procs :
        (procs[p].op = "join" /\ procs[p].pre = "full")
        => /\ ~procs[p].wrote /\ ~procs[p].bc
           /\ procs[p].pc = "done" => procs[p].res = "ConflictFull"

\* C10: a join called on a session id absent from the registry fails with
\* NotFound and creates or changes no session.
C10_JoinAbsentNotFound ==
    \A p \in Procs :
        (procs[p].op = "join" /\ procs[p].pre = "absent")
        => /\ ~procs[p].wrote
           /\ procs[p].pc = "done" => procs[p].res = "NotFound"

\* The identities of a roster are pairwise different.
NoDuplicate(ps) == \A i, j \in 1..Len(ps) : ps[i].userId = ps[j].userId => i = j

\* C11: no identity appears more than once in the roster of a registered
\* session.
C11_NoDuplicateIdentity ==
    \A g \in GameIds : Registered(g) => NoDuplicate(Session(g).players)

\* C12: a session id that leave has finished and removed from the registry
\* (no registry entry, status finished in the database) stays out of the
\* registry when getGameState is called on it, and that call returns null.
C12_LeftSessionStaysAbsent ==
    [][\A p \in Procs :
          (procs[p].op = "get" /\ procs[p].pc \in {"g_game", "g_rows"}
             /\ procs[p].row = "finished" /\ games[procs[p].g] = 0)
          => /\ games'[procs[p].g] = 0
             /\ procs'[p].pc = "done" => procs'[p].res = "null"]_vars

\* C13: while a registered session is not finished, no step lowers the score
\* of one of its participants.
C13_ScoreNeverLowered ==
    [][\A g \in GameIds :
          (Registered(g) /\ Session(g).status # "finished")
          => \A i \in 1..Len(Session(g).players) :
                \A j \in 1..Len(heap'[games[g]].players) :
                   heap'[games[g]].players[j].userId = Session(g).players[i].userId
                   => heap'[games[g]].players[j].score >= Session(g).players[i].score]_vars

\* C14: every paddle position stored in a GameState, of a human or of the
\* synthetic opponent, lies in [0.1, 0.9].
C14_PaddleInRange ==
    \A o \in ObjIds : \A i \in 1..Len(heap[o].players) :
        heap[o].players[i].paddleY >= PaddleMin /\ heap[o].players[i].paddleY <= PaddleMax

\* Moves with values above and below the range have been stored, clamped.
C14_PaddleClamped ==
    \E g \in GameIds :
        /\ Registered(g)
        /\ \E i, j \in 1..Len(Session(g).players) :
              /\ Session(g).players[i].paddleY = PaddleMax
              /\ Session(g).players[j].paddleY = PaddleMin

\* C16: the ball's x of a registered session lies in [0, 1].
C16_BallXInRange ==
    \A g \in GameIds :
        Registered(g) => (Session(g).ball.x >= 0 /\ Session(g).ball.x <= Scale)

\* C17: in a physics step in which the ball leaves the table past x = 0 or
\* x = 1, every participant of the opposite side gains exactly one point,
\* the participants of the conceding side keep their score, and the step ends
\* with the ball at (0.5, 0.5) and speed 1.0.
C17_ScoringEvent ==
    [][\A p \in Procs :
          (procs[p].pc \in {"m_rec", "m_ai"} /\ ~procs[p].phys /\ procs'[p].phys)
          => LET o == procs[p].ref
                 b == Collide(Integrate(heap[o].ball), heap[o].players)
                 conceding == IF b.x < 0 THEN "left" ELSE "right"
             IN (b.x < 0 \/ b.x > Scale)
                => /\ heap'[o].ball.x = Half /\ heap'[o].ball.y = Half
                   /\ heap'[o].ball.speed = Scale
                   /\ Len(heap'[o].players) = Len(heap[o].players)
                   /\ \A i \in 1..Len(heap[o].players) :
                         heap'[o].players[i].score =
                            IF heap[o].players[i].side = conceding
                            THEN heap[o].players[i].score
                            ELSE heap[o].players[i].score + 1]_vars

\* C15: the ball's y of a registered session lies in [0, 1].
C15_BallYInRange ==
    \A g \in GameIds :
        Registered(g) => (Session(g).ball.y >= 0 /\ Session(g).ball.y <= Scale)

\* A physics step has taken the ball to the wall y = 0 and turned it back.
C15_WallBounce ==
    \E p \in Procs :
        /\ procs[p].phys /\ procs[p].ref # 0
        /\ heap[procs[p].ref].ball.y = 0 /\ heap[procs[p].ref].ball.vy > 0

\* C18: a handler's broadcast returns normally to it, sends the snapshot
\* exactly once to every socket of the game's set and to no other socket,
\* and leaves in the set exactly the sockets whose send did not fail.
C18_BroadcastPrunes ==
    [][\A p \in Procs :
          (~procs[p].bc /\ procs'[p].bc)
          => LET g == procs'[p].g
                 before == IF gameConnections[g].present THEN gameConnections[g].conns ELSE {}
                 failed == {c \in before : sock[c] = "broken"}
             IN /\ procs'[p].pc = "done" /\ procs'[p].res = "ok"
                /\ \A c \in Conns : Broadcast(g).log[c] = IF c \in before THEN 1 ELSE 0
                /\ gameConnections'[g].conns = before \ failed]_vars

\* A broadcast has returned after it removed a socket whose send failed and
\* kept another, open one.
C18_PrunedOne ==
    \E p \in Procs, c, d \in Conns :
        /\ procs[p].bc /\ procs[p].pc = "done" /\ procs[p].res = "ok"
        /\ sock[c] = "broken" /\ c \notin gameConnections[procs[p].g].conns
        /\ sock[d] = "open" /\ d \in gameConnections[procs[p].g].conns

\* C19: a move on an id with no registry entry ends with NotFound; a move by
\* an identity that is not in the roster ends with Forbidden; a move by an
\* identity of the roster on a session that is not active ends with Conflict;
\* in each case the registry, the session and the socket set are unchanged
\* and nothing is broadcast.
C19_MoveRejected ==
    [][\A p \in Procs :
          /\ (procs[p].pc = "idle" /\ procs'[p].op = "move" /\ games[procs'[p].g] = 0)
             => /\ procs'[p].pc = "done" /\ procs'[p].res = "NotFound" /\ ~procs'[p].bc
                /\ UNCHANGED <<games, heap, gameConnections>>
          /\ (procs[p].op = "move" /\ procs[p].pc = "m_isin" /\ procs'[p] # procs[p]
                /\ games[procs[p].g] = procs[p].ref)
             => LET gs == heap[procs[p].ref]
                    member == FindUser(gs.players, procs[p].user) # 0
                IN (~member \/ gs.status # "active")
                   => /\ procs'[p].pc = "done" /\ ~procs'[p].bc
                      /\ procs'[p].res = IF member THEN "Conflict" ELSE "Forbidden"
                      /\ UNCHANGED <<games, heap, gameConnections>>]_vars

\* A move by a participant of a session that is not active has been answered
\* with Conflict.
C19_ConflictAnswered ==
    \E p \in Procs :
        /\ procs[p].op = "move" /\ procs[p].pc = "done" /\ procs[p].res = "Conflict"
        /\ Registered(procs[p].g)
        /\ FindUser(Session(procs[p].g).players, procs[p].user) # 0
        /\ Session(procs[p].g).status # "active"

\* C20: a registered session goes from waiting to active only in a step of a
\* join that brings its roster to the configured maximum, and a session of
\* human players whose roster is below the maximum is never active.
C20_ActiveOnlyWhenFull ==
    [][\A g \in GameIds :
          /\ (Registered(g) /\ games'[g] = games[g]
                /\ Session(g).status = "waiting" /\ heap'[games[g]].status = "active")
             => /\ Len(heap'[games[g]].players) = heap'[games[g]].maxPlayers
                /\ \E p \in Procs : procs[p].op = "join" /\ procs[p].g = g
                                     /\ procs'[p] # procs[p]
          /\ (games'[g] # 0 /\ ~heap'[games'[g]].isAiGame
                /\ Len(heap'[games'[g]].players) < heap'[games'[g]].maxPlayers)
             => heap'[games'[g]].status # "active"]_vars

\* The sides no participant of the roster ps occupies.
VacantSides(ps) == {s \in {"left", "right"} : \A i \in 1..Len(ps) : ps[i].side # s}

\* C21: in the step of a join that appends the new participant, when the
\* roster it is appended to leaves a side vacant, the new participant gets a
\* vacant side.
C21_JoinTakesVacantSide ==
    [][\A p \in Procs :
          (procs[p].op = "join" /\ ~procs[p].wrote /\ procs'[p].wrote)
          => LET ps == heap'[games'[procs[p].g]].players
                 old == SubSeq(ps, 1, Len(ps) - 1)
             IN /\ ps[Len(ps)].userId = procs[p].user
                /\ VacantSides(old) # {} => ps[Len(ps)].side \in VacantSides(old)]_vars

\* C22: createAIGame ends with a session registered under the new id whose
\* roster is the caller on the left and the synthetic opponent on the right,
\* both with score 0, with status active, winning score 11 and a start time.
C22_SyntheticGameCreated ==
    [][\A p \in Procs :
          (procs[p].op = "createAI" /\ procs[p].pc # "done" /\ procs'[p].pc = "done")
          => /\ procs'[p].res = "ok"
             /\ games'[procs[p].g] # 0
             /\ LET s == heap'[games'[procs[p].g]]
                IN /\ Len(s.players) = 2
                   /\ s.players[1].userId = procs[p].user /\ ~s.players[1].isAi
                   /\ s.players[1].side = "left" /\ s.players[1].score = 0
                   /\ s.players[2].isAi
                   /\ s.players[2].side = "right" /\ s.players[2].score = 0
                   /\ s.status = "active" /\ s.winningScore = 11 /\ s.started
                   /\ s.difficulty = dbGames[procs[p].g].difficulty]_vars

\* createAIGame has returned a game of the easy tier to u3.
C22_EasyGameReturned ==
    \E p \in Procs :
        /\ procs[p].op = "createAI" /\ procs[p].pc = "done" /\ procs[p].res = "ok"
        /\ procs[p].user = "u3" /\ Registered(procs[p].g)
        /\ Session(procs[p].g).difficulty = "easy"
        /\ aiOpponents[procs[p].g] = "easy"

\* C25: in a move on a game with a synthetic opponent, the opponent's new
\* paddle position differs from the position stored before by at most the
\* per-step displacement of its tier (speed x 0.02).
C25_AiMoveAnchored ==
    [][\A p \in Procs :
          (procs[p].op = "move" /\ procs[p].pc = "m_rec" /\ procs'[p].pc = "m_ai")
          => LET o == procs[p].ref
                 i == FindAi(heap[o].players)
                 maxMove == TDiv(AiSpeed(aiOpponents[procs[p].g]) * 2, 100)
             IN Abs(heap'[o].players[i].paddleY - heap[o].players[i].paddleY) <= maxMove]_vars

\* C23: once every handler has returned, so that no persistence call is
\* pending and none will be issued unless a new operation is called, the
\* status stored in the database for a registered session is the status of
\* the session in memory.
C23_StoredStatusCatchesUp ==
    \A g \in GameIds :
        (Registered(g) /\ Quiescent) => dbGames[g].status = Session(g).status

\* C24: the handler of a payload that does not parse replies with an error
\* on the socket the payload came from; the socket stays open and in the set
\* of its game, no session changes and nothing is broadcast.
C24_UnparsablePayload ==
    [][\A p \in Procs :
          (procs[p].pc = "idle" /\ procs'[p].op = "unparsable")
          => /\ procs'[p].pc = "done" /\ procs'[p].res = "error" /\ ~procs'[p].bc
             /\ procs'[p].str \in Conns
             /\ sock[procs'[p].str] = "open" /\ sock'[procs'[p].str] = "open"
             /\ UNCHANGED <<games, heap, gameConnections>>]_vars

\* An unparsable payload has been answered on a socket that is in the set of
\* a registered game.
C24_ErrorReplied ==
    \E p \in Procs :
        /\ procs[p].op = "unparsable" /\ procs[p].pc = "done" /\ procs[p].res = "error"
        /\ Registered(procs[p].g)
        /\ procs[p].str \in gameConnections[procs[p].g].conns
        /\ sock[procs[p].str] = "open"

C26_NoTunneling ==
    [][\A p \in Procs :
          (procs[p].pc \in {"m_rec", "m_ai"} /\ ~procs[p].phys /\ procs'[p].phys)
          => LET o == procs[p].ref
                 ps == heap[o].players
                 b == Integrate(heap[o].ball)
                 li == FindSide(ps, "left")
                 ri == FindSide(ps, "right")
                 hitLeft == b.vx < 0 /\ b.x <= LeftPlane /\ li # 0
                            /\ Abs(b.y - ps[li].paddleY) <= PaddleHalfHeight
                 hitRight == b.vx > 0 /\ b.x >= RightPlane /\ ri # 0
                             /\ Abs(b.y - ps[ri].paddleY) <= PaddleHalfHeight
             IN (hitLeft \/ hitRight)
                => /\ heap'[o].ball.x = IF hitLeft THEN LeftPlane ELSE RightPlane
                   /\ heap'[o].ball.vx = -b.vx
                   /\ \A i \in 1..Len(ps) : heap'[o].players[i].score = ps[i].score]_vars

\* A step has put the ball on the left plane, moving right and faster than
\* it was served, with the left paddle within 0.1 of it.
C26_ReflectedOnPlane ==
    \E p \in Procs :
        /\ procs[p].phys /\ procs[p].ref # 0
        /\ LET gs == heap[procs[p].ref]
           IN /\ gs.ball.x = LeftPlane /\ gs.ball.vx > 0 /\ gs.ball.speed > Scale
              /\ Abs(gs.ball.y - gs.players[1].paddleY) <= PaddleHalfHeight
              /\ \A i \in 1..Len(gs.players) : gs.players[i].score = 0

\* C27: a physics step in which no point is scored and whose integrated y is
\* <= 0 or >= 1 ends with y on that wall and vy pointing back into the
\* table (so that the step that follows takes the ball off the wall and
\* does not negate vy again), and with vy exactly negated when no paddle is
\* hit in the step.
C27_WallFlipsOnce ==
    [][\A p \in Procs :
          (procs[p].pc \in {"m_rec", "m_ai"} /\ ~procs[p].phys /\ procs'[p].phys)
          => LET o == procs[p].ref
                 b0 == heap[o].ball
                 b1 == heap'[o].ball
                 y1 == b0.y + TDiv(b0.vy * b0.speed, Scale * 60)
                 scored == \E i \in 1..Len(heap[o].players) :
                              heap'[o].players[i].score # heap[o].players[i].score
             IN (~scored /\ (y1 <= 0 \/ y1 >= Scale))
                => /\ b1.y = IF y1 <= 0 THEN 0 ELSE Scale
                   /\ IF y1 <= 0 THEN b1.vy > 0 ELSE b1.vy < 0
                   /\ b1.vx = b0.vx => b1.vy = -b0.vy]_vars

\* C29: in a physics step that scores a point after an earlier point, with
\* no paddle hit since the reset for that earlier point (the speed is still
\* 1.0, so the ball still moves the way that reset served it), the reset of
\* the step serves the ball the opposite way.
C29_ServeAlternates ==
    [][\A p \in Procs :
          (procs[p].pc \in {"m_rec", "m_ai"} /\ ~procs[p].phys /\ procs'[p].phys)
          => LET o == procs[p].ref
                 ps == heap[o].players
                 earlier == \E i \in 1..Len(ps) : ps[i].score > 0
                 scored == \E i \in 1..Len(ps) : heap'[o].players[i].score = ps[i].score + 1
             IN (earlier /\ scored /\ heap[o].ball.speed = Scale)
                => Sign(heap'[o].ball.vx) = -Sign(heap[o].ball.vx)]_vars

=============================================================================
